---- MODULE Spec2Model ----
(***************************************************************************)
(* networksecurity/components/model_trainer.py as a state machine.         *)
(*                                                                         *)
(* The module-level credential check (lines 24-35) runs first; then a host *)
(* constructs ModelTrainer objects and calls initiate_model_trainer on     *)
(* them.  Every statement group of initiate_model_trainer, train_model and *)
(* track_mlflow is one action of an invocation t; the except clause of     *)
(* initiate_model_trainer is the action Raise.                             *)
(*                                                                         *)
(* Python values: a str is a TLA+ string, except the environment values,   *)
(* which are token sequences (so that urlparse has something to parse);    *)
(* a dict is a sequence of <<key, value>> pairs in insertion order; a      *)
(* numpy array is a record [ndim, rows]; None is NoneVal (for environment  *)
(* values, NoneEnv).                                                       *)
(***************************************************************************)
EXTENDS Integers, Sequences, FiniteSets, TLC

(***************************************************************************)
(* Bounds of the model.                                                    *)
(***************************************************************************)
\* rows of each transformed array read from disk
NRows == 1

(***************************************************************************)
(* Values.                                                                 *)
(***************************************************************************)
NoneVal == "None"
\* No artifact record (yet).
NoArtifact == [returned |-> "None"]
NoneEnv == <<"<None>">>

Threads == {1, 2}
Instances == {1, 2}

Features == {0, 1}
Labels == {0, 1}

\* A transformed array: NRows rows, each one feature column then the label
\* column; or a one-dimensional array, as a malformed file gives.
Rows == {<<f, l>> : f \in Features, l \in Labels}
Arrays2D == {[ndim |-> 2, rows |-> r] : r \in [1..NRows -> Rows]}
Array1D == [ndim |-> 1, rows |-> <<>>]
Arrays == Arrays2D \cup {Array1D}

EnvKeys == {"MLFLOW_TRACKING_URI", "MLFLOW_TRACKING_USERNAME", "MLFLOW_TRACKING_PASSWORD"}

\* Tracking URIs the environment may hold, as token sequences.
UriFile == <<"file", ":", "/mlruns">>
UriFileUpper == <<"FILE", ":", "/mlruns">>
UriHttps == <<"https", ":", "//dagshub.com/repo.mlflow">>
UriBarePath == <<"mlruns">>
URIs == {UriFile, UriFileUpper, UriHttps, UriBarePath}

\* The fixed convenience path of line 104 and the paths a configuration may
\* name (path components; the last one is the file name).
FinalModelPath == <<"final_model", "model.pkl">>
ArtifactModelPath == <<"Artifacts", "model_trainer", "trained_model", "model.pkl">>
Paths == {ArtifactModelPath, FinalModelPath}

\* The candidate set of train_model, in declaration order (lines 48-54).
ModelNames == <<"Random Forest", "Decision Tree", "Gradient Boosting", "Logistic Regression", "AdaBoost">>

\* The hyperparameter grids of train_model (lines 56-73): name -> number of
\* tuned parameters.  Keys are looked up by name, so their order is free.
params == << <<"Decision Tree", 1>>, <<"Random Forest", 1>>, <<"Gradient Boosting", 3>>, <<"Logistic Regression", 0>>, <<"AdaBoost", 2>> >>

(***************************************************************************)
(* dict helpers: a dict is a sequence of <<key, value>> pairs.             *)
(***************************************************************************)
Keys(d) == [i \in 1..Len(d) |-> d[i][1]]
Values(d) == [i \in 1..Len(d) |-> d[i][2]]

\* list.index(v): the first position holding v
Index(s, v) == CHOOSE i \in 1..Len(s) : s[i] = v /\ \A j \in 1..(i - 1) : s[j] # v

\* max(list)
Max(s) == CHOOSE m \in {s[i] : i \in 1..Len(s)} : \A i \in 1..Len(s) : s[i] <= m

\* d[k]
Lookup(d, k) == d[Index(Keys(d), k)][2]

(***************************************************************************)
(* Module level: load_dotenv and the credential check (lines 24-35).       *)
(***************************************************************************)
\* load_dotenv() with its default override=False: a variable of the .env
\* file is set only if the process environment does not hold it already.
load_dotenv(environ, dotenv) == [k \in EnvKeys |-> IF environ[k] # NoneEnv THEN environ[k] ELSE dotenv[k]]

\* Python truthiness of os.getenv's result: None and "" are false.
Truthy(v) == v # NoneEnv /\ v # <<>>

\* A variant of AllCredentials that is content with one credential (C3
\* depends on the difference).
AnyCredential(environ) == \E k \in EnvKeys : Truthy(environ[k])

\* all([mlflow_uri, mlflow_user, mlflow_pass])
AllCredentials(environ) == \A k \in EnvKeys : Truthy(environ[k])

(***************************************************************************)
(* urlparse(uri).scheme: the text before the first ":" when it is made of  *)
(* scheme characters, lower-cased; otherwise "".                           *)
(***************************************************************************)
SchemeTokens == {"file", "FILE", "https", "HTTPS"}
Lower(tok) == CASE tok = "FILE" -> "file" [] tok = "HTTPS" -> "https" [] OTHER -> tok
HasColon(uri) == \E i \in 1..Len(uri) : uri[i] = ":"
urlparse_scheme(uri) == IF HasColon(uri) /\ Index(uri, ":") = 2 /\ uri[1] \in SchemeTokens THEN Lower(uri[1]) ELSE ""

(***************************************************************************)
(* The collaborators this file imports.  Their code is not part of the     *)
(* file; they are modelled from what the specification says they do.       *)
(***************************************************************************)
\* An sklearn estimator: its class, whether it is fitted, and (once fitted)
\* the parameter its predictions depend on.
Estimator(cls, fitted, coef) == [cls |-> cls, fitted |-> fitted, coef |-> coef]

\* estimator.predict(X): one label per row of X
predict(est, X) == [i \in 1..Len(X) |-> (X[i][1] + est.coef) % 2]

\* A fitted preprocessing transform, as load_object gives it back.
Preprocessors == {[shift |-> s] : s \in Features}

\* preprocessor.transform(X)
transform(pre, X) == [i \in 1..Len(X) |-> <<(X[i][1] + pre.shift) % Cardinality(Features)>>]

\* NetworkModel(preprocessor, model) and its predict: the transform, then
\* the model.
NetworkModel(preprocessor, model) == [kind |-> "NetworkModel", preprocessor |-> preprocessor, model |-> model]
NetworkModel_predict(nm, X) == predict(nm.model, transform(nm.preprocessor, X))

\* save_object / load_object: pickle.dump and pickle.load of one object.
pickle_dumps(obj) == [kind |-> "pickle", pickled |-> obj]
pickle_loads(bytes) == bytes.pickled

\* A path with no file, and a file whose write was cut short.
NoFile == [kind |-> "absent"]
PartialFile == [kind |-> "partial"]

\* The number of positions where y_true is a and y_pred is b.
RECURSIVE CountUpTo(_, _, _, _, _)
CountUpTo(y_true, y_pred, a, b, n) ==
    IF n = 0 THEN 0
    ELSE CountUpTo(y_true, y_pred, a, b, n - 1) + (IF y_true[n] = a /\ y_pred[n] = b THEN 1 ELSE 0)
Count(y_true, y_pred, a, b) == CountUpTo(y_true, y_pred, a, b, Len(y_true))

RECURSIVE Gcd(_, _)
Gcd(a, b) == IF b = 0 THEN a ELSE Gcd(b, a % b)

\* A ratio as a reduced fraction <<numerator, denominator>>; a zero
\* denominator gives 0, as sklearn's zero_division default does.
Ratio(n, d) == IF d = 0 THEN <<0, 1>> ELSE <<n \div Gcd(n, d), d \div Gcd(n, d)>>

\* get_classification_score: f1, precision and recall of the positive class.
get_classification_score(y_true, y_pred) ==
    LET tp == Count(y_true, y_pred, 1, 1)
        fp == Count(y_true, y_pred, 0, 1)
        fn == Count(y_true, y_pred, 1, 0)
    IN [f1_score |-> Ratio(2 * tp, 2 * tp + fp + fn),
        precision_score |-> Ratio(tp, tp + fp),
        recall_score |-> Ratio(tp, tp + fn)]

\* The test-set score evaluate_models records for one fitted candidate: the
\* number of test rows it predicts correctly.
test_model_score(est, X_test, y_test) ==
    Count(y_test, predict(est, X_test), 0, 0) + Count(y_test, predict(est, X_test), 1, 1)

\* evaluate_models: every candidate, in the order of the models dict, is
\* fitted in place (coefs[i] is what fitting candidate i arrives at) and its
\* test score recorded under its name.
evaluate_models_fit(models, coefs) ==
    [i \in 1..Len(models) |-> <<models[i][1], Estimator(models[i][2].cls, TRUE, coefs[i])>>]
evaluate_models_report(fitted, X_test, y_test) ==
    [i \in 1..Len(fitted) |-> <<fitted[i][1], test_model_score(fitted[i][2], X_test, y_test)>>]

\* What fitting may arrive at, for the five candidates.
FitOutcomes == [1..Len(ModelNames) -> {0, 1}]

(***************************************************************************)
(* Pure steps of train_model and initiate_model_trainer.                   *)
(***************************************************************************)
\* arr[:, :-1] and arr[:, -1] (lines 146-147)
SplitFeatures(arr) == [i \in 1..Len(arr.rows) |-> SubSeq(arr.rows[i], 1, Len(arr.rows[i]) - 1)]
SplitLabels(arr) == [i \in 1..Len(arr.rows) |-> arr.rows[i][Len(arr.rows[i])]]

\* The models dict of lines 48-54: unfitted estimators in declaration order.
EstimatorClasses == <<"RandomForestClassifier", "DecisionTreeClassifier", "GradientBoostingClassifier", "LogisticRegression", "AdaBoostClassifier">>
NewModels == [i \in 1..Len(ModelNames) |-> <<ModelNames[i], Estimator(EstimatorClasses[i], FALSE, 0)>>]

\* A variant of BestModelName that takes the last name holding the best
\* score instead of the first (C1 depends on the difference).
BestModelNameLast(model_report) ==
    Keys(model_report)[CHOOSE i \in 1..Len(model_report) :
        /\ Values(model_report)[i] = Max(Values(model_report))
        /\ \A j \in (i + 1)..Len(model_report) : Values(model_report)[j] # Max(Values(model_report))]

\* Lines 81-82: the best score and the name holding it.
BestModelScore(model_report) == Max(Values(model_report))
BestModelName(model_report) == Keys(model_report)[Index(Values(model_report), BestModelScore(model_report))]

\* os.path.dirname
dirname(path) == SubSeq(path, 1, Len(path) - 1)

(***************************************************************************)
(* State.                                                                  *)
(***************************************************************************)
VARIABLES
    os_environ,      \* the process environment (the three MLFLOW_* variables)
    dotenv_file,     \* the .env file
    module_state,    \* "unloaded", "dotenv", "loaded", "failed"
    module_error,    \* the exception the module's import raised, or NoneVal
    self,            \* the ModelTrainer objects: instance -> attributes
    inst,            \* the object invocation t runs on
    pc,              \* where invocation t stands
    loc,             \* the local variables of invocation t
    disk,            \* the transformed train and test arrays and the preprocessor on disk
    host_config,     \* the trained-model path of the configuration thread t constructs with
    fit_outcome,     \* what fitting the candidates arrives at in invocation t
    fs,              \* the output files: path -> content
    dirs,            \* the directories that exist
    writes,          \* the file writes so far, in order: [by, path, line, complete]
    runs,            \* the tracking service: the runs, in order of start
    registry,        \* the tracking service's model registry
    registry_uri,    \* mlflow's process-wide registry URI
    hist,            \* the steps invocation t has completed, in order
    selected,        \* the best model name invocation t selected (line 82)
    raised,          \* the exception invocation t raised to its caller
    result           \* the ModelTrainerArtifact invocation t returned

vars == <<os_environ, dotenv_file, module_state, module_error, self, inst, pc, loc, disk, host_config, fit_outcome, fs, dirs, writes, runs, registry, registry_uri, hist, selected, raised, result>>

modvars == <<os_environ, dotenv_file, module_state, module_error, disk, host_config, fit_outcome>>

\* The locals of an invocation before any is bound.
NoLocals ==
    [train_arr |-> NoneVal, test_arr |-> NoneVal,
     X_train |-> NoneVal, y_train |-> NoneVal, X_test |-> NoneVal, y_test |-> NoneVal,
     models |-> NoneVal, model_report |-> NoneVal, best_model_score |-> NoneVal,
     best_model_name |-> NoneVal, best_model |-> NoneVal,
     y_train_pred |-> NoneVal, classification_train_metric |-> NoneVal,
     y_test_pred |-> NoneVal, classification_test_metric |-> NoneVal,
     tracking_url_type_store |-> NoneVal, run |-> 0,
     preprocessor |-> NoneVal, network_model |-> NoneVal]

NoInstance == [constructed |-> FALSE, trained_model_file_path |-> NoneVal, best_model_name |-> NoneVal]

\* The environments a process may start in and the .env files beside it.
Environs ==
    {[k \in EnvKeys |-> CASE k = "MLFLOW_TRACKING_URI" -> u [] k = "MLFLOW_TRACKING_USERNAME" -> n [] OTHER -> p] :
        u \in {NoneEnv, <<>>} \cup URIs, n \in {NoneEnv, <<>>, <<"user">>}, p \in {NoneEnv, <<>>, <<"secret">>}}
DotenvEmpty == [k \in EnvKeys |-> NoneEnv]
DotenvFull == [k \in EnvKeys |-> CASE k = "MLFLOW_TRACKING_URI" -> UriHttps [] k = "MLFLOW_TRACKING_USERNAME" -> <<"user">> [] OTHER -> <<"secret">>]
DotenvNoPassword == [DotenvFull EXCEPT !["MLFLOW_TRACKING_PASSWORD"] = NoneEnv]
Dotenvs == {DotenvEmpty, DotenvFull, DotenvNoPassword}

\* Everything but the environment and the set of calling threads.
InitRest ==
    /\ module_state = "unloaded"
    /\ module_error = NoneVal
    /\ self = [i \in Instances |-> NoInstance]
    /\ inst = [t \in Threads |-> 0]
    /\ loc = [t \in Threads |-> NoLocals]
    /\ fs = [p \in Paths |-> NoFile]
    /\ dirs = {}
    /\ writes = <<>>
    /\ runs = <<>>
    /\ registry = <<>>
    /\ registry_uri = NoneVal
    /\ hist = [t \in Threads |-> <<>>]
    /\ selected = [t \in Threads |-> NoneVal]
    /\ raised = [t \in Threads |-> <<>>]
    /\ result = [t \in Threads |-> NoArtifact]

\* The files the data-transformation stage may have left on disk.
Disks == [train : Arrays, test : Arrays, preprocessor : Preprocessors]

\* Default inputs: one train row of feature 1 and label 1, one test row of
\* feature 0 and label 1 (repeated NRows times), a preprocessor that moves
\* the feature, the artifact path, and a fit where only the second
\* candidate predicts the test rows.
DiskDefault ==
    [train |-> [ndim |-> 2, rows |-> [i \in 1..NRows |-> <<1, 1>>]],
     test |-> [ndim |-> 2, rows |-> [i \in 1..NRows |-> <<0, 1>>]],
     preprocessor |-> [shift |-> 1]]
FitDefault == [i \in 1..Len(ModelNames) |-> IF i = 2 THEN 1 ELSE 0]
FitOther == [i \in 1..Len(ModelNames) |-> IF i = 1 THEN 1 ELSE 0]
EnvironDefault == DotenvFull

\* One calling thread, with inputs from one of three families:
\*   any environment and .env file, the other inputs at their defaults;
\*   any files on disk and any fit, the other inputs at their defaults;
\*   any tracking URI, any configured path and any fit, the default files.
Init ==
    /\ \/ /\ os_environ \in Environs
          /\ dotenv_file \in Dotenvs
          /\ disk = DiskDefault
          /\ host_config = [t \in Threads |-> ArtifactModelPath]
          /\ fit_outcome = [t \in Threads |-> FitDefault]
       \/ /\ os_environ = EnvironDefault
          /\ dotenv_file = DotenvEmpty
          /\ disk \in Disks
          /\ host_config = [t \in Threads |-> ArtifactModelPath]
          /\ \E o \in FitOutcomes : fit_outcome = [t \in Threads |-> o]
       \/ /\ os_environ \in {[EnvironDefault EXCEPT !["MLFLOW_TRACKING_URI"] = u] : u \in URIs}
          /\ dotenv_file = DotenvEmpty
          /\ disk = DiskDefault
          /\ \E p \in Paths : host_config = [t \in Threads |-> p]
          /\ \E o \in FitOutcomes : fit_outcome = [t \in Threads |-> o]
    /\ pc = [t \in Threads |-> IF t = 1 THEN "new" ELSE "idle"]
    /\ InitRest

\* Two calling threads; an environment that holds the credentials, the
\* default files, any configured paths and one of two fits per invocation.
InitThreads ==
    /\ os_environ = EnvironDefault
    /\ dotenv_file = DotenvEmpty
    /\ disk = DiskDefault
    /\ host_config \in [Threads -> Paths]
    /\ fit_outcome \in [Threads -> {FitDefault, FitOther}]
    /\ pc = [t \in Threads |-> "new"]
    /\ InitRest

(***************************************************************************)
(* Module level (lines 24-35).                                             *)
(***************************************************************************)
\* line 24
LoadDotenv ==
    /\ module_state = "unloaded"
    /\ os_environ' = load_dotenv(os_environ, dotenv_file)
    /\ module_state' = "dotenv"
    /\ UNCHANGED <<dotenv_file, module_error, disk, host_config, fit_outcome, self, inst, pc, loc, fs, dirs, writes, runs, registry, registry_uri, hist, selected, raised, result>>

\* lines 26-35: the three getenv calls, the check, and the write-back of
\* the values read (which changes nothing).
CheckCredentials ==
    /\ module_state = "dotenv"
    /\ IF AllCredentials(os_environ)
       THEN module_state' = "loaded" /\ module_error' = module_error
       ELSE module_state' = "failed" /\ module_error' = "EnvironmentError"
    /\ UNCHANGED <<os_environ, dotenv_file, disk, host_config, fit_outcome, self, inst, pc, loc, fs, dirs, writes, runs, registry, registry_uri, hist, selected, raised, result>>

(***************************************************************************)
(* ModelTrainer.__init__ (lines 40-45).  The class exists only once the    *)
(* module has loaded.                                                      *)
(***************************************************************************)
Construct(t) ==
    /\ module_state = "loaded"
    /\ pc[t] = "new"
    /\ self' = [self EXCEPT ![t] = [constructed |-> TRUE, trained_model_file_path |-> host_config[t], best_model_name |-> NoneVal]]
    /\ inst' = [inst EXCEPT ![t] = t]
    /\ pc' = [pc EXCEPT ![t] = "start"]
    /\ UNCHANGED <<modvars, loc, fs, dirs, writes, runs, registry, registry_uri, hist, selected, raised, result>>

\* The host hands thread t the object another thread has constructed.
Share(t) ==
    /\ pc[t] = "new"
    /\ \E i \in Instances \ {t} :
        /\ self[i].constructed
        /\ inst' = [inst EXCEPT ![t] = i]
    /\ pc' = [pc EXCEPT ![t] = "start"]
    /\ UNCHANGED <<modvars, self, loc, fs, dirs, writes, runs, registry, registry_uri, hist, selected, raised, result>>

(***************************************************************************)
(* initiate_model_trainer (lines 138-151).                                 *)
(***************************************************************************)
\* A step of invocation t done: the step is recorded and t moves on.
Step(t, name, next) ==
    /\ hist' = [hist EXCEPT ![t] = Append(@, name)]
    /\ pc' = [pc EXCEPT ![t] = next]

\* lines 139-141
Begin(t) ==
    /\ pc[t] = "start"
    /\ Step(t, "begin", "load_train")
    /\ UNCHANGED <<modvars, self, inst, loc, fs, dirs, writes, runs, registry, registry_uri, selected, raised, result>>

\* line 143
LoadTrain(t) ==
    /\ pc[t] = "load_train"
    /\ loc' = [loc EXCEPT ![t].train_arr = disk.train]
    /\ Step(t, "load_train", "load_test")
    /\ UNCHANGED <<modvars, self, inst, fs, dirs, writes, runs, registry, registry_uri, selected, raised, result>>

\* line 144
LoadTest(t) ==
    /\ pc[t] = "load_test"
    /\ loc' = [loc EXCEPT ![t].test_arr = disk.test]
    /\ Step(t, "load_test", "split")
    /\ UNCHANGED <<modvars, self, inst, fs, dirs, writes, runs, registry, registry_uri, selected, raised, result>>

\* lines 146-147; indexing a one-dimensional array with [:, :-1] raises.
Split(t) ==
    /\ pc[t] = "split"
    /\ loc[t].train_arr.ndim = 2
    /\ loc[t].test_arr.ndim = 2
    /\ loc' = [loc EXCEPT ![t].X_train = SplitFeatures(loc[t].train_arr),
                          ![t].y_train = SplitLabels(loc[t].train_arr),
                          ![t].X_test = SplitFeatures(loc[t].test_arr),
                          ![t].y_test = SplitLabels(loc[t].test_arr)]
    /\ Step(t, "split", "fit")
    /\ UNCHANGED <<modvars, self, inst, fs, dirs, writes, runs, registry, registry_uri, selected, raised, result>>

(***************************************************************************)
(* train_model (lines 47-111).                                             *)
(***************************************************************************)
\* lines 48-79: the candidates, the grids and evaluate_models
Fit(t) ==
    /\ pc[t] = "fit"
    /\ LET fitted == evaluate_models_fit(NewModels, fit_outcome[t])
       IN loc' = [loc EXCEPT ![t].models = fitted,
                             ![t].model_report = evaluate_models_report(fitted, loc[t].X_test, loc[t].y_test)]
    /\ Step(t, "fit", "select")
    /\ UNCHANGED <<modvars, self, inst, fs, dirs, writes, runs, registry, registry_uri, selected, raised, result>>

\* lines 81-84
Select(t) ==
    /\ pc[t] = "select"
    /\ LET name == BestModelName(loc[t].model_report)
       IN /\ loc' = [loc EXCEPT ![t].best_model_score = BestModelScore(loc[t].model_report),
                                ![t].best_model_name = name,
                                ![t].best_model = Lookup(loc[t].models, name)]
          /\ self' = [self EXCEPT ![inst[t]].best_model_name = name]
          /\ selected' = [selected EXCEPT ![t] = name]
    /\ Step(t, "select", "train_metric")
    /\ UNCHANGED <<modvars, inst, fs, dirs, writes, runs, registry, registry_uri, raised, result>>

\* lines 87-88
TrainMetric(t) ==
    /\ pc[t] = "train_metric"
    /\ LET pred == predict(loc[t].best_model, loc[t].X_train)
       IN loc' = [loc EXCEPT ![t].y_train_pred = pred,
                             ![t].classification_train_metric = get_classification_score(loc[t].y_train, pred)]
    /\ Step(t, "train_metric", "test_metric")
    /\ UNCHANGED <<modvars, self, inst, fs, dirs, writes, runs, registry, registry_uri, selected, raised, result>>

\* lines 91-92
TestMetric(t) ==
    /\ pc[t] = "test_metric"
    /\ LET pred == predict(loc[t].best_model, loc[t].X_test)
       IN loc' = [loc EXCEPT ![t].y_test_pred = pred,
                             ![t].classification_test_metric = get_classification_score(loc[t].y_test, pred)]
    /\ Step(t, "test_metric", "start_run")
    /\ UNCHANGED <<modvars, self, inst, fs, dirs, writes, runs, registry, registry_uri, selected, raised, result>>

(***************************************************************************)
(* track_mlflow (lines 113-136), called at line 95.                        *)
(***************************************************************************)
\* line 117: the run name
RunName(best_model_name) == best_model_name \o "_experiment"

\* lines 119-120: the tags, in the order they are set
RunTags(best_model_name) == << <<"model_name", best_model_name>>, <<"author", "Utsav">> >>

\* lines 123-130: the metrics, in the order they are logged
RunMetrics(train_metrics, test_metrics) ==
    << <<"train_f1_score", train_metrics.f1_score>>,
       <<"train_precision", train_metrics.precision_score>>,
       <<"train_recall", train_metrics.recall_score>>,
       <<"test_f1_score", test_metrics.f1_score>>,
       <<"test_precision", test_metrics.precision_score>>,
       <<"test_recall", test_metrics.recall_score>> >>

\* A variant of RegisteredModelName that registers whatever the tracking
\* store (C8 depends on the difference).
RegisteredModelNameAlways(tracking_url_type_store, best_model_name) == best_model_name

\* lines 133-136: the registered_model_name of log_model, None when not given
RegisteredModelName(tracking_url_type_store, best_model_name) ==
    IF tracking_url_type_store # "file" THEN best_model_name ELSE NoneVal

\* lines 114-117: the registry URI, the scheme of the tracking URI, and the
\* run opened under the name the object holds
StartRun(t) ==
    /\ pc[t] = "start_run"
    /\ registry_uri' = os_environ["MLFLOW_TRACKING_URI"]
    /\ runs' = Append(runs, [by |-> t, run_name |-> RunName(self[inst[t]].best_model_name), tags |-> <<>>,
                             metrics |-> <<>>, models |-> <<>>, status |-> "RUNNING"])
    /\ loc' = [loc EXCEPT ![t].tracking_url_type_store = urlparse_scheme(os_environ["MLFLOW_TRACKING_URI"]),
                          ![t].run = Len(runs) + 1]
    /\ Step(t, "start_run", "set_tags")
    /\ UNCHANGED <<modvars, self, inst, fs, dirs, writes, registry, selected, raised, result>>

\* lines 119-120
SetTags(t) ==
    /\ pc[t] = "set_tags"
    /\ runs' = [runs EXCEPT ![loc[t].run].tags = @ \o RunTags(self[inst[t]].best_model_name)]
    /\ Step(t, "set_tags", "log_metrics")
    /\ UNCHANGED <<modvars, self, inst, loc, fs, dirs, writes, registry, registry_uri, selected, raised, result>>

\* lines 123-130
LogMetrics(t) ==
    /\ pc[t] = "log_metrics"
    /\ runs' = [runs EXCEPT ![loc[t].run].metrics = @ \o RunMetrics(loc[t].classification_train_metric, loc[t].classification_test_metric)]
    /\ Step(t, "log_metrics", "log_model")
    /\ UNCHANGED <<modvars, self, inst, loc, fs, dirs, writes, registry, registry_uri, selected, raised, result>>

\* A variant of LogModel after which train_model returns without saving
\* (C7 depends on the difference).
LogModelThenReturn(t) ==
    /\ pc[t] = "log_model"
    /\ LET name == RegisteredModelName(loc[t].tracking_url_type_store, self[inst[t]].best_model_name)
           logged == [artifact_path |-> "model", model |-> loc[t].best_model, registered_model_name |-> name]
       IN /\ runs' = [runs EXCEPT ![loc[t].run].models = Append(@, logged),
                                  ![loc[t].run].status = "FINISHED"]
          /\ registry' = IF name # NoneVal THEN Append(registry, [name |-> name, run |-> loc[t].run, model |-> loc[t].best_model])
                         ELSE registry
    /\ Step(t, "log_model", "ret")
    /\ UNCHANGED <<modvars, self, inst, loc, fs, dirs, writes, registry_uri, selected, raised, result>>

\* lines 133-136 and the end of the with block, which finishes the run
LogModel(t) ==
    /\ pc[t] = "log_model"
    /\ LET name == RegisteredModelName(loc[t].tracking_url_type_store, self[inst[t]].best_model_name)
           logged == [artifact_path |-> "model", model |-> loc[t].best_model, registered_model_name |-> name]
       IN /\ runs' = [runs EXCEPT ![loc[t].run].models = Append(@, logged),
                                  ![loc[t].run].status = "FINISHED"]
          /\ registry' = IF name # NoneVal THEN Append(registry, [name |-> name, run |-> loc[t].run, model |-> loc[t].best_model])
                         ELSE registry
    /\ Step(t, "log_model", "load_pre")
    /\ UNCHANGED <<modvars, self, inst, loc, fs, dirs, writes, registry_uri, selected, raised, result>>

(***************************************************************************)
(* train_model, after the tracking (lines 97-111).                         *)
(***************************************************************************)
\* line 98
LoadPreprocessor(t) ==
    /\ pc[t] = "load_pre"
    /\ loc' = [loc EXCEPT ![t].preprocessor = disk.preprocessor]
    /\ Step(t, "load_pre", "makedirs")
    /\ UNCHANGED <<modvars, self, inst, fs, dirs, writes, runs, registry, registry_uri, selected, raised, result>>

\* lines 99-100: makedirs(exist_ok=True) makes the directory and its parents
MakeDirs(t) ==
    /\ pc[t] = "makedirs"
    /\ LET model_dir_path == dirname(self[inst[t]].trained_model_file_path)
       IN dirs' = dirs \cup {SubSeq(model_dir_path, 1, n) : n \in 1..Len(model_dir_path)}
    /\ Step(t, "makedirs", "save_bundle")
    /\ UNCHANGED <<modvars, self, inst, loc, fs, writes, runs, registry, registry_uri, selected, raised, result>>

\* save_object(path, obj): the file at path holds the pickled object
WriteFile(t, path, content, line) ==
    /\ fs' = [fs EXCEPT ![path] = content]
    /\ writes' = Append(writes, [by |-> t, path |-> path, line |-> line, complete |-> content.kind = "pickle"])

\* A variant of SaveBundle that wraps the first candidate instead of the
\* best model (C5 depends on the difference).
SaveBundleFirstModel(t) ==
    /\ pc[t] = "save_bundle"
    /\ LET network_model == NetworkModel(loc[t].preprocessor, loc[t].models[1][2])
       IN /\ loc' = [loc EXCEPT ![t].network_model = network_model]
          /\ WriteFile(t, self[inst[t]].trained_model_file_path, pickle_dumps(network_model), 103)
    /\ Step(t, "save_bundle", "save_model")
    /\ UNCHANGED <<modvars, self, inst, dirs, runs, registry, registry_uri, selected, raised, result>>

\* A variant of SaveBundle that builds the bundle and does not save it (C10
\* depends on the difference).
SaveBundleNotSaved(t) ==
    /\ pc[t] = "save_bundle"
    /\ loc' = [loc EXCEPT ![t].network_model = NetworkModel(loc[t].preprocessor, loc[t].best_model)]
    /\ Step(t, "save_bundle", "save_model")
    /\ UNCHANGED <<modvars, self, inst, fs, dirs, writes, runs, registry, registry_uri, selected, raised, result>>

\* lines 102-103
SaveBundle(t) ==
    /\ pc[t] = "save_bundle"
    /\ LET network_model == NetworkModel(loc[t].preprocessor, loc[t].best_model)
       IN /\ loc' = [loc EXCEPT ![t].network_model = network_model]
          /\ WriteFile(t, self[inst[t]].trained_model_file_path, pickle_dumps(network_model), 103)
    /\ Step(t, "save_bundle", "save_model")
    /\ UNCHANGED <<modvars, self, inst, dirs, runs, registry, registry_uri, selected, raised, result>>

\* line 104
SaveModel(t) ==
    /\ pc[t] = "save_model"
    /\ WriteFile(t, FinalModelPath, pickle_dumps(loc[t].best_model), 104)
    /\ Step(t, "save_model", "ret")
    /\ UNCHANGED <<modvars, self, inst, loc, dirs, runs, registry, registry_uri, selected, raised, result>>

\* lines 107-111: the artifact record
ModelTrainerArtifact(trained_model_file_path, train_metric_artifact, test_metric_artifact) ==
    [trained_model_file_path |-> trained_model_file_path,
     train_metric_artifact |-> train_metric_artifact,
     test_metric_artifact |-> test_metric_artifact]

\* lines 107-111 and the return of line 149
Return(t) ==
    /\ pc[t] = "ret"
    /\ result' = [result EXCEPT ![t] = ModelTrainerArtifact(self[inst[t]].trained_model_file_path,
                                                            loc[t].classification_train_metric,
                                                            loc[t].classification_test_metric)]
    /\ Step(t, "return", "done")
    /\ UNCHANGED <<modvars, self, inst, loc, fs, dirs, writes, runs, registry, registry_uri, selected, raised>>

(***************************************************************************)
(* The except clause of initiate_model_trainer (lines 150-151): whatever   *)
(* a step raises is wrapped in a NetworkSecurityException and raised to    *)
(* the caller.  A step that calls a collaborator or a library may raise;   *)
(* the split raises exactly when an array is one-dimensional.              *)
(***************************************************************************)
MayRaise == {"load_train", "load_test", "fit", "train_metric", "test_metric", "start_run", "set_tags",
             "log_metrics", "log_model", "load_pre", "makedirs", "save_bundle", "save_model"}

InWithBlock == {"set_tags", "log_metrics", "log_model"}

Raises(t) ==
    \/ pc[t] \in MayRaise
    \/ pc[t] = "split" /\ (loc[t].train_arr.ndim # 2 \/ loc[t].test_arr.ndim # 2)

\* What the caller gets: NetworkSecurityException(e, sys)
NetworkSecurityException(e) == [type |-> "NetworkSecurityException", error_message |-> e]

\* A variant of Unwind where the except clause swallows the exception and
\* initiate_model_trainer returns None (C2 depends on the difference).
UnwindSwallowed(t) ==
    /\ raised' = raised
    /\ pc' = [pc EXCEPT ![t] = "done"]
    /\ runs' = IF pc[t] \in InWithBlock THEN [runs EXCEPT ![loc[t].run].status = "FAILED"] ELSE runs
    /\ loc' = [loc EXCEPT ![t] = NoLocals]

\* The exception of a failing step reaches the caller; a run that is open
\* is ended as failed by the with block; the frames and their locals go.
Unwind(t) ==
    /\ raised' = [raised EXCEPT ![t] = Append(@, NetworkSecurityException([type |-> "Exception", at |-> pc[t]]))]
    /\ pc' = [pc EXCEPT ![t] = "raised"]
    /\ runs' = IF pc[t] \in InWithBlock THEN [runs EXCEPT ![loc[t].run].status = "FAILED"] ELSE runs
    /\ loc' = [loc EXCEPT ![t] = NoLocals]

Raise(t) ==
    /\ Raises(t)
    /\ Unwind(t)
    /\ UNCHANGED <<modvars, self, inst, fs, dirs, writes, registry, registry_uri, hist, selected, result>>

\* save_object fails after it has opened the file for writing: the file is
\* left truncated or half-written.
RaiseMidWrite(t) ==
    /\ pc[t] \in {"save_bundle", "save_model"}
    /\ IF pc[t] = "save_bundle"
       THEN WriteFile(t, self[inst[t]].trained_model_file_path, PartialFile, 103)
       ELSE WriteFile(t, FinalModelPath, PartialFile, 104)
    /\ Unwind(t)
    /\ UNCHANGED <<modvars, self, inst, dirs, registry, registry_uri, hist, selected, result>>

(***************************************************************************)
(* The specifications.                                                     *)
(***************************************************************************)
ModuleLoad == LoadDotenv \/ CheckCredentials

Invocation(t) ==
    \/ Construct(t) \/ Begin(t) \/ LoadTrain(t) \/ LoadTest(t) \/ Split(t)
    \/ Fit(t) \/ Select(t) \/ TrainMetric(t) \/ TestMetric(t)
    \/ StartRun(t) \/ SetTags(t) \/ LogMetrics(t) \/ LogModel(t)
    \/ LoadPreprocessor(t) \/ MakeDirs(t) \/ SaveBundle(t) \/ SaveModel(t) \/ Return(t)
    \/ Raise(t) \/ RaiseMidWrite(t)

Next == ModuleLoad \/ \E t \in Threads : Invocation(t)

\* One thread calls initiate_model_trainer.
Spec == Init /\ [][Next]_vars

NextThreads == Next \/ \E t \in Threads : Share(t)

\* Two threads call initiate_model_trainer, on one object or on two.
SpecThreads == InitThreads /\ [][NextThreads]_vars

(***************************************************************************)
(* Properties.                                                             *)
(***************************************************************************)
\* The steps of a successful invocation, in order.
FullOrder ==
    <<"begin", "load_train", "load_test", "split", "fit", "select", "train_metric", "test_metric",
      "start_run", "set_tags", "log_metrics", "log_model",
      "load_pre", "makedirs", "save_bundle", "save_model", "return">>

IsPrefix(s, r) == Len(s) <= Len(r) /\ SubSeq(r, 1, Len(s)) = s

Done(t, step) == \E i \in 1..Len(hist[t]) : hist[t][i] = step

\* The score the report of invocation t holds for the i-th declared candidate.
ScoreOf(t, i) == Lookup(loc[t].model_report, ModelNames[i])

\* Invocation t has selected its best model and still holds its locals.
HasSelected(t) == Done(t, "select") /\ pc[t] # "raised"

\* C1: the selected best model name is a declared candidate whose score is
\* the maximum of the report, and no candidate declared before it has that
\* score (ties go to the first in declaration order).
C1_SelectsFirstMaximum ==
    \A t \in Threads : HasSelected(t) =>
        \E i \in 1..Len(ModelNames) :
            /\ loc[t].best_model_name = ModelNames[i]
            /\ \A j \in 1..Len(ModelNames) : ScoreOf(t, j) <= ScoreOf(t, i)
            /\ \A j \in 1..(i - 1) : ScoreOf(t, j) < ScoreOf(t, i)

\* C1 witness: a selection made among several candidates tied at the top,
\* the first of them not being the first candidate declared.
C1_Witness ==
    \E t \in Threads : HasSelected(t) /\
        \E i, j \in 1..Len(ModelNames) :
            /\ 1 < i /\ i < j
            /\ loc[t].best_model_name = ModelNames[i]
            /\ ScoreOf(t, j) = ScoreOf(t, i)
            /\ ScoreOf(t, 1) < ScoreOf(t, i)

\* C2: an invocation has raised exactly when one NetworkSecurityException
\* carrying the exception of the failing step has reached its caller; the
\* step that failed is the one after the last completed step (it was not
\* completed, and nothing after it was); no artifact record is returned; an
\* invocation that returns has raised nothing; and once raised, the
\* invocation does nothing more.
C2_FailureIsWrappedOnce ==
    /\ [](\A t \in Threads :
            /\ (pc[t] = "raised") = (raised[t] # <<>>)
            /\ pc[t] = "raised" =>
                /\ Len(raised[t]) = 1
                /\ raised[t][1].type = "NetworkSecurityException"
                /\ raised[t][1].error_message.type = "Exception"
                /\ Len(hist[t]) < Len(FullOrder)
                /\ raised[t][1].error_message.at = FullOrder[Len(hist[t]) + 1]
                /\ IsPrefix(hist[t], FullOrder)
                /\ result[t] = NoArtifact
            /\ pc[t] = "done" => raised[t] = <<>> /\ hist[t] = FullOrder)
    /\ [][\A t \in Threads : pc[t] = "raised" =>
            /\ pc'[t] = "raised" /\ hist'[t] = hist[t] /\ raised'[t] = raised[t] /\ result'[t] = result[t]
            /\ \A k \in 1..Len(writes') : k > Len(writes) => writes'[k].by # t
            /\ \A k \in 1..Len(runs') : runs'[k].by = t => k <= Len(runs) /\ runs'[k] = runs[k]]_vars

\* C2 witness: a step inside the tracking run has failed and the caller
\* holds the wrapped exception.
C2_Witness ==
    \E t \in Threads : pc[t] = "raised" /\ raised[t][1].error_message.at = "log_metrics"

\* Training, logging or file writing has begun somewhere.
TrainingStarted ==
    \/ \E t \in Threads : pc[t] \notin {"new", "idle"}
    \/ \E i \in Instances : self[i].constructed
    \/ runs # <<>> \/ writes # <<>> \/ registry # <<>>
    \/ \E p \in Paths : fs[p] # NoFile

Missing(k) == os_environ[k] = NoneEnv \/ os_environ[k] = <<>>

\* C3: once the credential check has run, the module has loaded exactly
\* when none of the three credentials is missing, and otherwise has failed
\* with an EnvironmentError; nothing of the trainer has begun unless the
\* module has loaded, so whenever training has started the three
\* credentials are set.
C3_MissingCredentialIsFatal ==
    /\ module_state \in {"loaded", "failed"} =>
        /\ (module_state = "failed") = (\E k \in EnvKeys : Missing(k))
        /\ (module_state = "failed") = (module_error = "EnvironmentError")
    /\ TrainingStarted => module_state = "loaded" /\ \A k \in EnvKeys : ~Missing(k)

\* C3 witness: the module failed to load with exactly one credential
\* missing.
C3_Witness ==
    /\ module_state = "failed"
    /\ Cardinality({k \in EnvKeys : Missing(k)}) = 1

\* The configured path of the object invocation t runs on.
ConfiguredPath(t) == self[inst[t]].trained_model_file_path

\* C4 (as claimed): once persist-and-package has completed, the configured
\* path differs from final_model/model.pkl, the file at the configured path
\* holds the composite bundle and final_model/model.pkl the bare model.
C4_ConfiguredPathHoldsBundle ==
    \A t \in Threads : pc[t] \in {"ret", "done"} =>
        /\ ConfiguredPath(t) # FinalModelPath
        /\ fs[ConfiguredPath(t)] = pickle_dumps(NetworkModel(loc[t].preprocessor, loc[t].best_model))
        /\ fs[FinalModelPath] = pickle_dumps(loc[t].best_model)

\* The bundle line 103 has serialized, loaded back.
LoadedBundle(t) == pickle_loads(pickle_dumps(loc[t].network_model))

Serialized(t) == pc[t] \in {"save_model", "ret", "done"}

TransformThenModel(t, X) ==
    [i \in 1..Len(X) |-> (((X[i][1] + loc[t].preprocessor.shift) % Cardinality(Features)) + loc[t].best_model.coef) % 2]

RunsOf(t) == {k \in 1..Len(runs) : runs[k].by = t}

\* The registry entries made for run k.
RegisteredFor(k) == {j \in 1..Len(registry) : registry[j].run = k}

\* C6 (as claimed): whatever the interleaving, the run name, the model_name
\* tag and the registered model name of a run are the best model name that
\* the invocation which opened the run selected.
C6_RunUsesOwnSelection ==
    \A k \in 1..Len(runs) :
        /\ runs[k].run_name = selected[runs[k].by] \o "_experiment"
        /\ \A i \in 1..Len(runs[k].tags) :
            runs[k].tags[i][1] = "model_name" => runs[k].tags[i][2] = selected[runs[k].by]
        /\ \A j \in RegisteredFor(k) : registry[j].name = selected[runs[k].by]

\* C7: the steps an invocation has completed are always an initial part of
\* the order load, split, fit-and-select, train metrics, test metrics,
\* log-run, persist-and-package, return (so none is repeated, skipped or
\* started before the one before it has completed); an invocation has
\* returned its artifact record exactly when it has completed all of them.
C7_StagesInOrderOnce ==
    \A t \in Threads :
        /\ IsPrefix(hist[t], FullOrder)
        /\ pc[t] = "done" => hist[t] = FullOrder
        /\ (result[t] # NoArtifact) = (pc[t] = "done")

\* C7 witness: an invocation has returned.
C7_Witness == \E t \in Threads : pc[t] = "done" /\ result[t] # NoArtifact

\* The tracking URI names the local file store.
IsFileStore(uri) == uri \in {UriFile, UriFileUpper}

\* C8: an invocation whose log-run has completed has opened exactly one
\* run, finished, named after the selected model, holding the two tags
\* model_name and author, the six metrics taken from the matching metric
\* bundle, and the best model logged once; the model is registered (once,
\* under the selected model's name) exactly when the tracking URI's scheme
\* is not the file scheme.
C8_LogRunRecordsRun ==
    \A t \in Threads : Done(t, "log_model") =>
        /\ Cardinality(RunsOf(t)) = 1
        /\ \A k \in RunsOf(t) :
            /\ runs[k].status = "FINISHED"
            /\ runs[k].run_name = selected[t] \o "_experiment"
            /\ runs[k].tags = << <<"model_name", selected[t]>>, <<"author", "Utsav">> >>
            /\ Len(runs[k].metrics) = 6
            /\ Len(runs[k].models) = 1
            /\ (RegisteredFor(k) # {}) = ~IsFileStore(os_environ["MLFLOW_TRACKING_URI"])
            /\ Cardinality(RegisteredFor(k)) <= 1
            /\ \A j \in RegisteredFor(k) : registry[j].name = selected[t]
            /\ runs[k].models[1].registered_model_name = (IF IsFileStore(os_environ["MLFLOW_TRACKING_URI"]) THEN NoneVal ELSE selected[t])
            /\ pc[t] # "raised" =>
                /\ runs[k].metrics[1] = <<"train_f1_score", loc[t].classification_train_metric.f1_score>>
                /\ runs[k].metrics[2] = <<"train_precision", loc[t].classification_train_metric.precision_score>>
                /\ runs[k].metrics[3] = <<"train_recall", loc[t].classification_train_metric.recall_score>>
                /\ runs[k].metrics[4] = <<"test_f1_score", loc[t].classification_test_metric.f1_score>>
                /\ runs[k].metrics[5] = <<"test_precision", loc[t].classification_test_metric.precision_score>>
                /\ runs[k].metrics[6] = <<"test_recall", loc[t].classification_test_metric.recall_score>>
                /\ runs[k].models[1].model = loc[t].best_model
                /\ \A j \in RegisteredFor(k) : registry[j].model = loc[t].best_model

\* C8 witness: a log-run has completed against a file store written in
\* upper case, nothing being registered, with train and test metrics that
\* differ.
C8_Witness ==
    \E t \in Threads :
        /\ pc[t] = "load_pre"
        /\ os_environ["MLFLOW_TRACKING_URI"] = UriFileUpper
        /\ registry = <<>>
        /\ loc[t].classification_train_metric # loc[t].classification_test_metric

\* C9 (as claimed): the returned artifact record references the configured
\* path, never final_model/model.pkl, and holds the metric bundles computed
\* from the train and the test labels and the best model's predictions.
C9_ArtifactReferencesConfiguredPath ==
    \A t \in Threads : pc[t] = "done" =>
        /\ result[t].trained_model_file_path = ConfiguredPath(t)
        /\ result[t].trained_model_file_path # FinalModelPath
        /\ result[t].train_metric_artifact = get_classification_score(loc[t].y_train, predict(loc[t].best_model, loc[t].X_train))
        /\ result[t].test_metric_artifact = get_classification_score(loc[t].y_test, predict(loc[t].best_model, loc[t].X_test))

\* The steps before the first save.
BeforeSaving ==
    {"load_train", "load_test", "split", "fit", "train_metric", "test_metric",
     "start_run", "set_tags", "log_metrics", "log_model", "load_pre", "makedirs"}

\* C10: every file write of an invocation comes after that invocation's
\* log-run has completed (its run is finished); an invocation that failed
\* in any step before the saves has written no file; and every write of
\* line 104 (final_model/model.pkl) comes after a completed write of the
\* bundle to the configured path by the same invocation.
C10_WritesFollowLogRun ==
    /\ \A k \in 1..Len(writes) :
        /\ Done(writes[k].by, "log_model")
        /\ \E r \in RunsOf(writes[k].by) : runs[r].status = "FINISHED"
        /\ writes[k].line = 104 =>
            /\ writes[k].path = FinalModelPath
            /\ \E j \in 1..(k - 1) :
                /\ writes[j].by = writes[k].by
                /\ writes[j].line = 103
                /\ writes[j].complete
                /\ writes[j].path = ConfiguredPath(writes[k].by)
    /\ \A t \in Threads :
        (pc[t] = "raised" /\ raised[t][1].error_message.at \in BeforeSaving) =>
            /\ \A k \in 1..Len(writes) : writes[k].by # t
            /\ \A p \in Paths : fs[p] = NoFile

\* C10 witness: final_model/model.pkl has been written by line 104.
C10_Witness == \E k \in 1..Len(writes) : writes[k].line = 104 /\ writes[k].complete

====
